---------------------------- MODULE Spec2Model ----------------------------
(***************************************************************************)
(* SamplesDataLoader (DataLoading/data_loader.py): the sample index built  *)
(* at construction, the indexed accessor __getitem__, the frame renderer   *)
(* generate_rgb_from_samples and the materializer save_sample.             *)
(*                                                                         *)
(* File names are sequences of one-character strings, so that sorting,     *)
(* endswith, split and slicing are computed as Python computes them.       *)
(* A path is a record [dir, name]: dir is the sequence of directory        *)
(* components, name the last component.  Stream values are in tenths       *)
(* (5 stands for 0.5), so value*255 is (v*255) \div 10.                     *)
(***************************************************************************)
EXTENDS Integers, Sequences, FiniteSets

VARIABLES
    root_dir,       \* self.root_dir: "default" is the module-level root_dir
    dataset_type,   \* self.dataset_type
    transform,      \* self.transform (None or the configured pipeline)
    samples,        \* self.samples after __init__
    built,          \* "ok", or the error __init__ raised
    files,          \* input files that exist (paths)
    evDirPresent,   \* whether <root>/<dataset_type>/events exists
    rows,           \* rows of each event file
    out,            \* the output root: directory name -> (file name -> data)
    last,           \* the most recent call: what it was, how it ended, what it read
    sample_events,  \* argument of generate_rgb_from_samples
    rgb_frames      \* its result

vars == <<root_dir, dataset_type, transform, samples, built, files,
          evDirPresent, rows, out, last, sample_events, rgb_frames>>

-----------------------------------------------------------------------------
(* Bounds *)

MaxFiles == 2     \* event files with the tabular extension in the events directory
MaxBins == 6      \* length of a transformed stream
MaxStream == 4    \* length of a stream handed to the renderer directly

-----------------------------------------------------------------------------
(* Characters and strings *)

Ord(c) ==
    CASE c = "." -> 46  [] c = "0" -> 48  [] c = "1" -> 49  [] c = "2" -> 50
      [] c = "3" -> 51  [] c = "4" -> 52  [] c = "5" -> 53  [] c = "6" -> 54
      [] c = "7" -> 55  [] c = "8" -> 56  [] c = "9" -> 57  [] c = "_" -> 95
      [] c = "a" -> 97  [] c = "b" -> 98  [] c = "c" -> 99  [] c = "g" -> 103
      [] c = "i" -> 105 [] c = "j" -> 106 [] c = "m" -> 109 [] c = "n" -> 110
      [] c = "p" -> 112 [] c = "r" -> 114 [] c = "s" -> 115 [] c = "t" -> 116
      [] c = "v" -> 118 [] c = "x" -> 120

\* Python's str < str: code point order, a proper prefix first.
RECURSIVE StrLess(_, _)
StrLess(a, b) ==
    IF b = <<>> THEN FALSE
    ELSE IF a = <<>> THEN TRUE
    ELSE IF Ord(Head(a)) # Ord(Head(b)) THEN Ord(Head(a)) < Ord(Head(b))
    ELSE StrLess(Tail(a), Tail(b))

\* variant of Sorted: sorted(..., reverse=True)
RECURSIVE SortedReversed(_)
SortedReversed(S) ==
    IF S = {} THEN <<>>
    ELSE LET m == CHOOSE x \in S : \A y \in S \ {x} : StrLess(y, x)
         IN  <<m>> \o SortedReversed(S \ {m})

\* sorted(names) of a directory listing (os.listdir never repeats a name)
RECURSIVE Sorted(_)
Sorted(S) ==
    IF S = {} THEN <<>>
    ELSE LET m == CHOOSE x \in S : \A y \in S \ {x} : StrLess(x, y)
         IN  <<m>> \o Sorted(S \ {m})

\* file_name.endswith(".csv")
EndsWithCsv(n) ==
    /\ Len(n) >= 4
    /\ SubSeq(n, Len(n) - 3, Len(n)) = <<".", "c", "s", "v">>

\* s.split('.')[0]: everything before the first dot
RECURSIVE SplitDotFirst(_)
SplitDotFirst(s) ==
    IF s = <<>> \/ Head(s) = "." THEN <<>>
    ELSE <<Head(s)>> \o SplitDotFirst(Tail(s))

\* s[4:]
SliceFrom4(s) == IF Len(s) <= 4 THEN <<>> ELSE SubSeq(s, 5, Len(s))

Digit(d) == CASE d = 0 -> "0" [] d = 1 -> "1" [] d = 2 -> "2" [] d = 3 -> "3"
              [] d = 4 -> "4" [] d = 5 -> "5" [] d = 6 -> "6" [] d = 7 -> "7"
              [] d = 8 -> "8" [] d = 9 -> "9"

\* f"{i:03}" for 0 <= i < 1000
Format03(i) == <<Digit((i \div 100) % 10), Digit((i \div 10) % 10), Digit(i % 10)>>

\* os.path.join(dir, name)
Join(dir, name) == [dir |-> dir, name |-> name]

\* path.split('/')[-1]
Basename(p) == p.name


-----------------------------------------------------------------------------
(* The file system the loader sees *)

Csv == <<".", "c", "s", "v">>

Traj1Csv  == <<"t", "r", "a", "j", "1">> \o Csv
Traj10Csv == <<"t", "r", "a", "j", "1", "0">> \o Csv
Traj1bCsv == <<"t", "r", "a", "j", "1", ".", "b">> \o Csv
Traj1Txt  == <<"t", "r", "a", "j", "1", ".", "t", "x", "t">>

EventNames == {Traj1Csv, Traj10Csv, Traj1bCsv, Traj1Txt}
\* the rows an event file of each name holds
EventRows(name) ==
    CASE name = Traj1Csv -> 1 [] name = Traj10Csv -> 0 [] name = Traj1bCsv -> 2
      [] OTHER -> 0
LabelNames == {Traj1Csv, Traj10Csv, Traj1bCsv}
FixedLabelNames == {Traj1Csv, Traj10Csv}

Roots == {"default", "other"}
DatasetTypes == {"synthetic", "Real", "real"}

\* os.path.join(self.root_dir, self.dataset_type, "events")
EventsDir(rd, dt) == <<rd, dt, "events">>
\* os.path.join(self.root_dir, self.dataset_type, "labels")
LabelsDir(rd, dt) == <<rd, dt, "labels">>
\* root_dir + '/synthetic/labels/' with the module-level root_dir
FixedLabelsDir == <<"default", "synthetic", "labels">>

\* os.listdir(dir) as the set of names in it
ListDir(fs, dir) == {p.name : p \in {q \in fs : q.dir = dir}}

-----------------------------------------------------------------------------
(* The transform pipeline: a caller-supplied callable.  The configured     *)
(* pipelines of the model bin the events of a sample into `bins` values    *)
(* and, with drop_empty, reject (return None for) a sample without events. *)

NoTransform == [kind |-> "None", bins |-> 0, drop_empty |-> FALSE]

Transforms ==
    {NoTransform}
        \cup [kind : {"ToFrame"}, bins : 0..MaxBins, drop_empty : {FALSE}]
        \cup [kind : {"ToFrame"}, bins : {MaxBins}, drop_empty : {TRUE}]

NoneValue == [isNone |-> TRUE, v |-> <<>>]
Some(s) == [isNone |-> FALSE, v |-> s]

\* self.transform(events) for a configured transform, on a file of r rows
ApplyTransform(tr, r) ==
    IF tr.drop_empty /\ r = 0 THEN NoneValue
    ELSE Some([j \in 1..tr.bins |-> IF j <= r THEN 10 ELSE 0])

-----------------------------------------------------------------------------
(* _load_samples *)

\* label_file of a sample without labels
NoLabel == [dir |-> <<>>, name |-> <<>>]

CsvOnly(seq) == SelectSeq(seq, EndsWithCsv)

\* variant of LoadSamples: `else` in place of `elif self.dataset_type == "Real"`
LoadSamplesAnyTag(rd, dt, fs, present) ==
    IF dt = "synthetic" THEN
        IF ~present THEN [outcome |-> "FileNotFoundError", samples |-> <<>>]
        ELSE LET names == CsvOnly(Sorted(ListDir(fs, EventsDir(rd, dt))))
             IN  [outcome |-> "ok",
                  samples |-> [i \in 1..Len(names) |->
                                 <<Join(EventsDir(rd, dt), names[i]),
                                   Join(LabelsDir(rd, dt), names[i])>>]]
    ELSE
        IF ~present THEN [outcome |-> "FileNotFoundError", samples |-> <<>>]
        ELSE LET names == CsvOnly(Sorted(ListDir(fs, EventsDir(rd, dt))))
             IN  [outcome |-> "ok",
                  samples |-> [i \in 1..Len(names) |->
                                 <<Join(EventsDir(rd, dt), names[i]), NoLabel>>]]

\* variant of LoadSamples: a synthetic event file without its label file is skipped
LoadSamplesLabelled(rd, dt, fs, present) ==
    IF dt = "synthetic" THEN
        IF ~present THEN [outcome |-> "FileNotFoundError", samples |-> <<>>]
        ELSE LET names == SelectSeq(CsvOnly(Sorted(ListDir(fs, EventsDir(rd, dt)))),
                                    LAMBDA n : Join(LabelsDir(rd, dt), n) \in fs)
             IN  [outcome |-> "ok",
                  samples |-> [i \in 1..Len(names) |->
                                 <<Join(EventsDir(rd, dt), names[i]),
                                   Join(LabelsDir(rd, dt), names[i])>>]]
    ELSE IF dt = "Real" THEN
        IF ~present THEN [outcome |-> "FileNotFoundError", samples |-> <<>>]
        ELSE LET names == CsvOnly(Sorted(ListDir(fs, EventsDir(rd, dt))))
             IN  [outcome |-> "ok",
                  samples |-> [i \in 1..Len(names) |->
                                 <<Join(EventsDir(rd, dt), names[i]), NoLabel>>]]
    ELSE [outcome |-> "ok", samples |-> <<>>]

LoadSamples(rd, dt, fs, present) ==
    IF dt = "synthetic" THEN
        IF ~present THEN [outcome |-> "FileNotFoundError", samples |-> <<>>]
        ELSE LET names == CsvOnly(Sorted(ListDir(fs, EventsDir(rd, dt))))
             IN  [outcome |-> "ok",
                  samples |-> [i \in 1..Len(names) |->
                                 <<Join(EventsDir(rd, dt), names[i]),
                                   Join(LabelsDir(rd, dt), names[i])>>]]
    ELSE IF dt = "Real" THEN
        IF ~present THEN [outcome |-> "FileNotFoundError", samples |-> <<>>]
        ELSE LET names == CsvOnly(Sorted(ListDir(fs, EventsDir(rd, dt))))
             IN  [outcome |-> "ok",
                  samples |-> [i \in 1..Len(names) |->
                                 <<Join(EventsDir(rd, dt), names[i]), NoLabel>>]]
    ELSE [outcome |-> "ok", samples |-> <<>>]

\* len(self.samples)
Length == Len(samples)

\* variant of Position: negative indices rejected
PositionNonNegative(idx) ==
    IF 0 <= idx /\ idx < Length THEN idx + 1 ELSE 0

\* self.samples[idx]: the 1-based position a Python index resolves to, 0 for IndexError
Position(idx) ==
    IF 0 <= idx /\ idx < Length THEN idx + 1
    ELSE IF idx < 0 /\ -Length <= idx THEN Length + idx + 1
    ELSE 0


-----------------------------------------------------------------------------
(* __getitem__, _load_events, _load_labels *)

Raised(err, where, reads) ==
    [outcome |-> err, at |-> where, events |-> NoneValue, labels |-> NoLabel,
     reads |-> reads]

\* variant of LoadEvents: the transform is looked at before the file is read
LoadEventsTransformFirst(file_path) ==
    IF transform = NoTransform
    THEN Raised("TypeError", "transform", <<>>)
    ELSE IF file_path \notin files
    THEN Raised("FileNotFoundError", "read_events", <<>>)
    ELSE [outcome |-> "ok", at |-> "", labels |-> NoLabel, reads |-> <<file_path>>,
          events |-> ApplyTransform(transform, rows[file_path])]

\* _load_events: pd.read_csv(file_path) first, self.transform(events) last
LoadEvents(file_path) ==
    IF file_path \notin files
    THEN Raised("FileNotFoundError", "read_events", <<>>)
    ELSE IF transform = NoTransform
    THEN Raised("TypeError", "transform", <<file_path>>)
    ELSE [outcome |-> "ok", at |-> "", labels |-> NoLabel, reads |-> <<file_path>>,
          events |-> ApplyTransform(transform, rows[file_path])]

\* _load_labels: pd.read_csv(file_path); the records are named by their file
LoadLabels(file_path) ==
    IF file_path \notin files
    THEN Raised("FileNotFoundError", "read_labels", <<>>)
    ELSE [outcome |-> "ok", at |-> "", events |-> NoneValue, labels |-> file_path,
          reads |-> <<file_path>>]

GetItem(idx) ==
    IF Position(idx) = 0 THEN Raised("IndexError", "index", <<>>)
    ELSE LET event_file == samples[Position(idx)][1]
             label_file == samples[Position(idx)][2]
             ev == LoadEvents(event_file)
         IN  IF ev.outcome # "ok" THEN ev
             ELSE IF label_file # NoLabel
             THEN LET lb == LoadLabels(label_file)
                  IN  IF lb.outcome # "ok"
                      THEN Raised(lb.outcome, lb.at, ev.reads \o lb.reads)
                      ELSE [outcome |-> "ok", at |-> "", events |-> ev.events,
                            labels |-> lb.labels, reads |-> ev.reads \o lb.reads]
             ELSE ev

-----------------------------------------------------------------------------
(* generate_rgb_from_samples *)

\* value*255 stored into a uint8 channel (values are tenths)
Scale(v) == ((v * 255) \div 10) % 256

\* variant of GenerateRgbFromSamples: channels filled in B, G, R order
GenerateRgbSwapped(s) ==
    [i \in 1..(Len(s) \div 3) |->
        <<Scale(s[3 * (i - 1) + 3]), Scale(s[3 * (i - 1) + 2]), Scale(s[3 * (i - 1) + 1])>>]

\* frame k of range(0, (len//3)*3, 3) is the (k \div 3 + 1)-th frame
GenerateRgbFromSamples(s) ==
    [i \in 1..(Len(s) \div 3) |->
        <<Scale(s[3 * (i - 1) + 1]), Scale(s[3 * (i - 1) + 2]), Scale(s[3 * (i - 1) + 3])>>]

-----------------------------------------------------------------------------
(* save_sample *)

\* self.samples[idx][0].split('/')[-1].split('.')[0]
TrajName(event_file) == SplitDotFirst(Basename(event_file))

Png(pixels) == [kind |-> "png", pixels |-> pixels, src |-> NoLabel]
CsvCopy(src) == [kind |-> "csv", pixels |-> <<>>, src |-> src]

\* f"img{number}_{traj_name[4:]}.png"
ImageName(i, traj_name) ==
    <<"i", "m", "g">> \o Format03(i) \o <<"_">> \o SliceFrom4(traj_name)
        \o <<".", "p", "n", "g">>

\* writing one file of a directory: created, or replaced when it exists
Put(dir, name, data) ==
    [n \in (DOMAIN dir) \cup {name} |-> IF n = name THEN data ELSE dir[n]]

\* variant of MustMakeDirs: os.makedirs without the os.path.exists test
AlwaysMakeDirs(o, d) == TRUE

\* if not os.path.exists(file_path)
MustMakeDirs(o, d) == d \notin DOMAIN o

\* os.makedirs(file_path)
MakeDirs(o, d) == [x \in (DOMAIN o) \cup {d} |-> IF x = d THEN <<>> ELSE o[x]]

\* variant of Rejected: no `if events is None` test
NeverRejected(events) == FALSE

\* if events is None
Rejected(events) == events.isNone

\* variant of WriteFrames: enumerate(rgb_frames, 1)
RECURSIVE WriteFramesFromOne(_, _, _, _)
WriteFramesFromOne(dir, traj_name, frames, i) ==
    IF i > Len(frames) THEN dir
    ELSE WriteFramesFromOne(Put(dir, ImageName(i, traj_name), Png(frames[i])),
                            traj_name, frames, i + 1)

\* for i, frame in enumerate(rgb_frames): im.save(...); i is frames' 1-based place
RECURSIVE WriteFrames(_, _, _, _)
WriteFrames(dir, traj_name, frames, i) ==
    IF i > Len(frames) THEN dir
    ELSE WriteFrames(Put(dir, ImageName(i - 1, traj_name), Png(frames[i])),
                     traj_name, frames, i + 1)

\* csv_file_path
FixedLabelPath(traj_name) == Join(FixedLabelsDir, traj_name \o Csv)

Ended(o, err, where, g) ==
    [out |-> o, outcome |-> err, at |-> where, events |-> g.events,
     labels |-> g.labels, reads |-> g.reads]

SaveSampleResult(idx) ==
    IF Position(idx) = 0
    THEN Ended(out, "IndexError", "index", Raised("IndexError", "index", <<>>))
    ELSE
    LET traj_name == TrajName(samples[Position(idx)][1])
        exists == ~MustMakeDirs(out, traj_name)
    IN  IF ~exists /\ traj_name \in DOMAIN out
        THEN Ended(out, "FileExistsError", "makedirs", Raised("", "", <<>>))
        ELSE
        LET o1 == IF exists THEN out ELSE MakeDirs(out, traj_name)
            g == GetItem(idx)
        IN  IF g.outcome # "ok" THEN Ended(o1, g.outcome, g.at, g)
            ELSE IF Rejected(g.events) THEN Ended(o1, "ok", "rejected", g)
            ELSE IF g.events.isNone THEN Ended(o1, "TypeError", "render", g)
            ELSE
            LET rgb == GenerateRgbFromSamples(g.events.v)
                o2 == [o1 EXCEPT ![traj_name] = WriteFrames(@, traj_name, rgb, 1)]
                csv_file_path == FixedLabelPath(traj_name)
            IN  IF csv_file_path \notin files
                THEN Ended(o2, "FileNotFoundError", "copy", g)
                ELSE Ended([o2 EXCEPT ![traj_name] =
                               Put(@, traj_name \o Csv, CsvCopy(csv_file_path))],
                           "ok", "", [g EXCEPT !.reads = @ \o <<csv_file_path>>])

-----------------------------------------------------------------------------
(* The state machine *)

Call(op, idx, r) ==
    [op |-> op, idx |-> idx, outcome |-> r.outcome, at |-> r.at,
     events |-> r.events, labels |-> r.labels, reads |-> r.reads,
     again |-> op = "save" /\ last.op = op /\ last.idx = idx]

CsvNames(ev) == {n \in ev : EndsWithCsv(n)}

\* the label files a call can ask for: those __getitem__ reads, those save_sample copies
ReadLabelNames(ev, dt) == IF dt = "synthetic" THEN CsvNames(ev) ELSE {}
CopiedLabelNames(ev) == {SplitDotFirst(n) \o Csv : n \in CsvNames(ev)}

Init ==
    \E rd \in Roots, dt \in DatasetTypes, tr \in Transforms, present \in BOOLEAN,
       ev \in SUBSET EventNames, lab \in SUBSET LabelNames,
       fixed \in SUBSET FixedLabelNames :
        /\ Cardinality(CsvNames(ev)) <= MaxFiles
        /\ ~present => ev = {}
        /\ IF rd = "default"
           THEN /\ lab \subseteq ReadLabelNames(ev, dt) \cup CopiedLabelNames(ev)
                /\ fixed = {}
           ELSE /\ lab \subseteq ReadLabelNames(ev, dt)
                /\ fixed \subseteq CopiedLabelNames(ev)
        /\ root_dir = rd
        /\ dataset_type = dt
        /\ transform = tr
        /\ evDirPresent = present
        /\ files = {Join(EventsDir(rd, dt), n) : n \in ev}
                     \cup {Join(LabelsDir(rd, "synthetic"), n) : n \in lab}
                     \cup {Join(FixedLabelsDir, n) : n \in fixed}
        /\ rows = [p \in {Join(EventsDir(rd, dt), n) : n \in ev} |-> EventRows(p.name)]
        /\ LET b == LoadSamples(rd, dt, files, present)
           IN  /\ samples = b.samples
               /\ built = b.outcome
               /\ last = [op |-> "init", idx |-> 0, outcome |-> b.outcome, at |-> "",
                          events |-> NoneValue, labels |-> NoLabel, reads |-> <<>>,
                          again |-> FALSE]
        /\ out = <<>>
        /\ sample_events = <<>>
        /\ rgb_frames = <<>>

TypeOK ==
    /\ root_dir \in Roots
    /\ dataset_type \in DatasetTypes
    /\ transform \in Transforms
    /\ built \in {"ok", "FileNotFoundError"}
    /\ evDirPresent \in BOOLEAN
    /\ Len(samples) <= MaxFiles
    /\ \A i \in 1..Len(samples) : samples[i][1] \in files
    /\ DOMAIN rows \subseteq files
    /\ last.op \in {"init", "get", "save", "render"}
    /\ \A d \in DOMAIN out : \E i \in 1..Len(samples) : d = TrajName(samples[i][1])

\* dataset[idx]
Get(idx) ==
    /\ built = "ok"
    /\ last' = Call("get", idx, GetItem(idx))
    /\ UNCHANGED <<root_dir, dataset_type, transform, samples, built, files,
                   evDirPresent, rows, out, sample_events, rgb_frames>>

\* dataset.save_sample(idx, output_root)
SaveSample(idx) ==
    /\ built = "ok"
    /\ LET r == SaveSampleResult(idx)
       IN  /\ out' = r.out
           /\ last' = Call("save", idx, r)
    /\ UNCHANGED <<root_dir, dataset_type, transform, samples, built, files,
                   evDirPresent, rows, sample_events, rgb_frames>>

\* the indices a caller tries: every valid one, and one past each end
Indices == (-(Length + 1))..Length

\* dataset.generate_rgb_from_samples(sample_events)
Render ==
    /\ built = "ok"
    /\ rgb_frames' = GenerateRgbFromSamples(sample_events)
    /\ last' = [op |-> "render", idx |-> 0, outcome |-> "ok", at |-> "",
                events |-> NoneValue, labels |-> NoLabel, reads |-> <<>>,
                again |-> FALSE]
    /\ UNCHANGED <<root_dir, dataset_type, transform, samples, built, files,
                   evDirPresent, rows, out, sample_events>>

Next ==
    \/ \E idx \in Indices : Get(idx)
    \/ \E idx \in Indices : SaveSample(idx)
    \/ Render

Spec == Init /\ [][Next]_vars

NextGet == \E idx \in Indices : Get(idx)
SpecGet == Init /\ [][NextGet]_vars

NextSave == \E idx \in Indices : SaveSample(idx)
SpecSave == Init /\ [][NextSave]_vars


\* The renderer alone, on every stream of at most MaxStream values of 0, 0.5 and 1.
StreamValues == {0, 5, 10}
Streams == UNION {[1..n -> StreamValues] : n \in 0..MaxStream}

InitRender ==
    /\ root_dir = "default"
    /\ dataset_type = "synthetic"
    /\ transform = NoTransform
    /\ evDirPresent = TRUE
    /\ files = {}
    /\ rows = <<>>
    /\ samples = LoadSamples("default", "synthetic", {}, TRUE).samples
    /\ built = "ok"
    /\ last = [op |-> "init", idx |-> 0, outcome |-> "ok", at |-> "",
               events |-> NoneValue, labels |-> NoLabel, reads |-> <<>>,
               again |-> FALSE]
    /\ out = <<>>
    /\ sample_events \in Streams
    /\ rgb_frames = <<>>

SpecRender == InitRender /\ [][Render]_vars


-----------------------------------------------------------------------------
(* Properties *)

\* the sample a call on last.idx resolves to, and its files
LastPos == Position(last.idx)
LastEventFile == samples[LastPos][1]
LastLabelFile == samples[LastPos][2]
LastDir == TrajName(LastEventFile)

\* the names with the tabular extension in the events directory
EventCsvNames == CsvNames(ListDir(files, EventsDir(root_dir, dataset_type)))

\* C1 as claimed: get(index) fails with a range error, having read no file, for
\* every index outside 0 <= index < length(), get(-1) included.
C1_Original ==
    (last.op = "get" /\ ~(0 <= last.idx /\ last.idx < Length))
        => (last.outcome = "IndexError" /\ last.reads = <<>>)

\* C1 amended: get(index) fails with a range error exactly when index < -length()
\* or index >= length(), and then no file was read; an index with
\* -length() <= index < 0 is accepted and reads the event file of the descriptor
\* at length() + index.
C1_RangeError ==
    last.op = "get" =>
        /\ (last.idx < -Length \/ last.idx >= Length) <=> (last.outcome = "IndexError")
        /\ last.outcome = "IndexError" => last.reads = <<>>
        /\ (-Length <= last.idx /\ last.idx < 0) =>
               /\ Len(last.reads) >= 1
               /\ last.reads[1] = samples[Length + last.idx + 1][1]

C1_Witness ==
    /\ last.op = "get"
    /\ Length >= 1
    /\ last.idx = -(Length + 1)
    /\ last.outcome = "IndexError"

\* C2 as claimed: under every tag other than "synthetic" the index holds exactly
\* one descriptor, without a label source, per event file with the tabular
\* extension.
C2_Original ==
    (dataset_type # "synthetic" /\ built = "ok") =>
        /\ Len(samples) = Cardinality(EventCsvNames)
        /\ \A i \in 1..Len(samples) : samples[i][2] = NoLabel

\* C2 amended: under the tag "Real" the index holds exactly one descriptor,
\* without a label source, per event file with the tabular extension under
\* <root>/Real/events/; under any other tag that is not "synthetic" the index is
\* empty and building it does not fail.
C2_RealOnly ==
    /\ (dataset_type = "Real" /\ built = "ok") =>
           /\ Len(samples) = Cardinality(EventCsvNames)
           /\ {samples[i][1] : i \in 1..Len(samples)}
                  = {Join(EventsDir(root_dir, "Real"), n) : n \in EventCsvNames}
           /\ \A i \in 1..Len(samples) : samples[i][2] = NoLabel
    /\ dataset_type \notin {"synthetic", "Real"} => (built = "ok" /\ samples = <<>>)

C2_Witness ==
    /\ dataset_type = "Real"
    /\ built = "ok"
    /\ Len(samples) = 2
    /\ Traj1Txt \in ListDir(files, EventsDir(root_dir, dataset_type))

C4_PairedAndSorted ==
    (dataset_type = "synthetic" /\ built = "ok") =>
        /\ \A i \in 1..Len(samples) :
               /\ samples[i][1].name = samples[i][2].name
               /\ samples[i][1].dir = <<root_dir, "synthetic", "events">>
               /\ samples[i][2].dir = <<root_dir, "synthetic", "labels">>
        /\ \A i \in 1..Len(samples) : \A j \in 1..Len(samples) :
               i < j => StrLess(samples[i][1].name, samples[j][1].name)

C4_Witness ==
    /\ dataset_type = "synthetic"
    /\ built = "ok"
    /\ Len(samples) = 2
    /\ Traj1Txt \in ListDir(files, EventsDir(root_dir, dataset_type))

\* C5: a stream of length 3k+r, 0 <= r < 3, renders to exactly k frames; frame i
\* holds elements 3i, 3i+1, 3i+2 as R, G, B, and the last r elements are in no
\* frame.
C5_FrameGrouping ==
    last.op = "render" =>
        \E k \in 0..Len(sample_events), r \in 0..2 :
            /\ Len(sample_events) = 3 * k + r
            /\ Len(rgb_frames) = k
            /\ \A i \in 0..(k - 1) :
                   rgb_frames[i + 1] = <<Scale(sample_events[3 * i + 1]),
                                         Scale(sample_events[3 * i + 2]),
                                         Scale(sample_events[3 * i + 3])>>

C5_Witness ==
    /\ last.op = "render"
    /\ Len(sample_events) = 4
    /\ Len(rgb_frames) = 1
    /\ rgb_frames[1] = <<0, 127, 255>>

NextFetch == GetItem(last'.idx)
NextPos == Position(last'.idx)
NextDir == TrajName(samples[NextPos][1])

\* C7: when the fetched events value is absent, save_sample returns normally; it
\* leaves every existing directory of the output root as it was, and adds at
\* most the empty directory <output_root>/<name>/.
C7_RejectedWritesNothing ==
    [][(last'.op = "save" /\ NextPos # 0 /\ NextFetch.outcome = "ok"
            /\ NextFetch.events.isNone) =>
           /\ last'.outcome = "ok"
           /\ DOMAIN out' = (DOMAIN out) \cup {NextDir}
           /\ \A d \in DOMAIN out : out'[d] = out[d]
           /\ NextDir \notin DOMAIN out => out'[NextDir] = <<>>]_vars

C7_Witness ==
    /\ last.op = "save"
    /\ LastPos # 0
    /\ last.outcome = "ok"
    /\ last.events.isNone
    /\ LastDir \in DOMAIN out
    /\ out[LastDir] = <<>>

\* "the event file name minus its extension": the name up to its last dot
RECURSIVE MinusExtension(_)
MinusExtension(s) ==
    IF s = <<>> THEN <<>>
    ELSE IF s[Len(s)] = "." THEN SubSeq(s, 1, Len(s) - 1)
    ELSE MinusExtension(SubSeq(s, 1, Len(s) - 1))

SampleName(i) == MinusExtension(Basename(samples[i][1]))

\* C8 as claimed: the directory of a sample is named by its event file name
\* minus the extension, and save_sample on one index creates, overwrites and
\* removes nothing in the directory of another index.
C8_Original ==
    [][last'.op = "save" =>
          \A j \in 1..Length :
              j # NextPos =>
                  /\ (SampleName(j) \in DOMAIN out') <=> (SampleName(j) \in DOMAIN out)
                  /\ SampleName(j) \in DOMAIN out =>
                         out'[SampleName(j)] = out[SampleName(j)]]_vars

\* C9: save_sample on the index of the call before it ends as that call ended,
\* never because the directory exists, and leaves the same files in
\* <output_root>/<name>/ (and in every other directory).
C9_SecondCallSameFiles ==
    [][(last.op = "save" /\ last'.op = "save" /\ last'.idx = last.idx) =>
           /\ last'.outcome = last.outcome
           /\ last'.outcome # "FileExistsError"
           /\ DOMAIN out' = DOMAIN out
           /\ \A d \in DOMAIN out : DOMAIN out'[d] = DOMAIN out[d]]_vars

C9_Witness ==
    /\ last.op = "save"
    /\ last.again
    /\ last.outcome = "ok"
    /\ ~last.events.isNone
    /\ ImageName(1, LastDir) \in DOMAIN out[LastDir]
    /\ (LastDir \o Csv) \in DOMAIN out[LastDir]

\* whether every frame of stream s is in directory d under its name
FramesInPlace(d, s) ==
    /\ d \in DOMAIN out
    /\ \A i \in 0..((Len(s) \div 3) - 1) :
           /\ ImageName(i, d) \in DOMAIN out[d]
           /\ out[d][ImageName(i, d)] =
                  Png(<<Scale(s[3 * i + 1]), Scale(s[3 * i + 2]), Scale(s[3 * i + 3])>>)

\* C10 as claimed: when the label file is missing at the fixed path (and the
\* transform accepts the sample), save_sample fails with not-found, with the
\* directory created and img000 .. all written and left in place.
C10_Original ==
    (/\ last.op = "save"
     /\ LastPos # 0
     /\ LoadEvents(LastEventFile).outcome = "ok"
     /\ ~LoadEvents(LastEventFile).events.isNone
     /\ FixedLabelPath(LastDir) \notin files) =>
        /\ last.outcome = "FileNotFoundError"
        /\ FramesInPlace(LastDir, LoadEvents(LastEventFile).events.v)

\* C10 amended: when the label file is missing at the fixed path and the fetch
\* of the sample succeeds with a present events value, save_sample fails with
\* not-found at the label copy, with the directory created and img000 .. all
\* written and left in place.
C10_CopyIsLast ==
    (/\ last.op = "save"
     /\ LastPos # 0
     /\ GetItem(last.idx).outcome = "ok"
     /\ ~GetItem(last.idx).events.isNone
     /\ FixedLabelPath(LastDir) \notin files) =>
        /\ last.outcome = "FileNotFoundError"
        /\ last.at = "copy"
        /\ FramesInPlace(LastDir, GetItem(last.idx).events.v)

C10_Witness ==
    /\ last.op = "save"
    /\ LastPos # 0
    /\ dataset_type = "Real"
    /\ last.outcome = "FileNotFoundError"
    /\ last.at = "copy"
    /\ Len(last.events.v) = 6
    /\ ImageName(0, LastDir) \in DOMAIN out[LastDir]
    /\ ImageName(1, LastDir) \in DOMAIN out[LastDir]

=============================================================================
